---- MODULE Spec2Model ----
(***************************************************************************)
(* The escrow program: process_init_escrow and process_withdraw of         *)
(* program/src/processor.rs, over the accounts the host hands to them.     *)
(*                                                                         *)
(* Account data is kept in decoded form.  The data of an escrow account    *)
(* is a sequence holding one Escrow record (storage of the right size);    *)
(* the full settlement leaves it as it is and takes the lamports.          *)
(* The token ledger (spl_token) and the host's cross-program               *)
(* invocation are modelled at the call sites of the processor, with the    *)
(* checks the ledger makes on the accounts the processor passes.           *)
(*                                                                         *)
(* Scope of the inputs: the account list is complete and every account is  *)
(* of the kind its position asks for (a wallet, a token account of the one *)
(* mint, record storage owned by the program, the genuine token program    *)
(* and rent sysvar); which wallet, which token account, which record       *)
(* storage, which seventh account and which amount is free.  The handlers  *)
(* do not check the owner of the record storage; storage written by        *)
(* another program is outside this model.                                  *)
(*                                                                         *)
(* An invocation that fails changes nothing, so a failing call is a        *)
(* stuttering step: claims about failures quantify over the calls possible *)
(* in a reachable state, claims about effects read the last invocation     *)
(* that returned Ok (last) and the accounts before it (prev).              *)
(*                                                                         *)
(* Under SpecDecode one call of process runs on a byte buffer: it decodes  *)
(* the buffer with EscrowInstruction::unpack of program/src/instruction.rs *)
(* and runs the handler of the decoded instruction with the decoded        *)
(* amount.                                                                 *)
(*                                                                         *)
(* The state is what the accounts store between invocations.  What the     *)
(* host does with an account left without lamports when the transaction    *)
(* ends is not part of the program and not modelled.                       *)
(***************************************************************************)
EXTENDS Integers, FiniteSets, Sequences, TLC

\* ---------------------------------------------------------------- bounds

\* Stand-in for u64::MAX: amounts and lamports are integers in 0..U64_MAX.
U64_MAX == 7

\* Largest amount an instruction carries.
MaxAmount == 2

\* The rent sysvar's minimum balance for storage of the size of an Escrow.
RentExemptMin == 2

\* Stand-in for u8::MAX: a byte of instruction data is in 0..ByteMax.
ByteMax == 2

\* ------------------------------------------------------------- universe

Users == {"alice", "bob"}

Holdings == {"h1", "h2"}

EscrowAccts == {"e1", "e2"}

\* Pubkey::find_program_address(&[b"escrow"], program_id): one fixed key
\* that no wallet holds.
PDA == "pda"

\* The all-zero key of zeroed storage.
NoKey == "none"

Amounts == 0 .. MaxAmount

\* Zeroed storage read as an Escrow.
ZeroEscrow ==
    [is_initialized |-> FALSE, initializer_pubkey |-> NoKey,
     temp_token_account_pubkey |-> NoKey, withdrawer_pubkey |-> NoKey,
     deposited_amount |-> 0]

\* A token account after the ledger closed it.
ClosedToken == [state |-> "Uninitialized", owner |-> NoKey, amount |-> 0, lamports |-> 0]

VARIABLES
    escrow,     \* EscrowAccts -> [lamports, data]
    token,      \* Holdings -> [state, owner, amount, lamports]
    lamports,   \* Users -> lamports of the wallet
    last,       \* the last invocation that returned Ok: [op, a (accounts and amount)]
    prev,       \* the accounts as they were before that invocation
    underfunded,\* the records that were live, at some time, over a holding
                \* whose balance was below their deposited_amount
    buf,        \* instruction bytes handed to Processor::process
    dec         \* what Processor::process made of buf

vars == <<escrow, token, lamports, last, prev, underfunded, buf, dec>>

\* The accounts as one value, the form the handlers work on.
Accounts == [escrow |-> escrow, token |-> token, lamports |-> lamports]

\* --------------------------------------------------------------- results

Ok == "Ok"

Res(e, S) == [err |-> e, st |-> S]

\* ------------------------------------------------------ the token ledger

spl_set_authority_NoOwnerCheck(S, acct, new_authority, owner_key) ==
    IF S.token[acct].state # "Initialized" THEN [err |-> "UninitializedAccount", st |-> S]
    ELSE [err |-> "Ok", st |-> [S EXCEPT !.token[acct].owner = new_authority]]

\* spl_token set_authority(AccountOwner) as invoked by process_init_escrow:
\* the account must be a live token account whose owner is the signing
\* authority.
spl_set_authority(S, acct, new_authority, owner_key) ==
    IF S.token[acct].state # "Initialized" THEN Res("UninitializedAccount", S)
    ELSE IF S.token[acct].owner # owner_key THEN Res("OwnerMismatch", S)
    ELSE Res(Ok, [S EXCEPT !.token[acct].owner = new_authority])

\* spl_token transfer as invoked by process_withdraw.  A transfer of an
\* account to itself, or of zero, is validated and moves nothing.
spl_transfer(S, src, dst, authority, amount) ==
    IF S.token[src].state # "Initialized" \/ S.token[dst].state # "Initialized"
    THEN Res("UninitializedAccount", S)
    ELSE IF S.token[src].amount < amount THEN Res("InsufficientFunds", S)
    ELSE IF S.token[src].owner # authority THEN Res("OwnerMismatch", S)
    ELSE IF src = dst \/ amount = 0 THEN Res(Ok, S)
    ELSE IF S.token[dst].amount + amount > U64_MAX THEN Res("Overflow", S)
    ELSE Res(Ok, [S EXCEPT !.token[src].amount = @ - amount,
                           !.token[dst].amount = @ + amount])

\* spl_token close_account as invoked by process_withdraw: the account must
\* be empty, its lamports go to the destination wallet, its data is zeroed.
spl_close_account(S, acct, dest, authority) ==
    IF S.token[acct].state # "Initialized" THEN Res("UninitializedAccount", S)
    ELSE IF S.token[acct].amount # 0 THEN Res("NonNativeHasBalance", S)
    ELSE IF S.token[acct].owner # authority THEN Res("OwnerMismatch", S)
    ELSE IF S.lamports[dest] + S.token[acct].lamports > U64_MAX THEN Res("Overflow", S)
    ELSE Res(Ok, [S EXCEPT !.lamports[dest] = @ + S.token[acct].lamports,
                           !.token[acct] = ClosedToken])

invoke_signed_NoLookup(S, pda_account, r) == r

\* invoke_signed with the seeds of the derived authority: the host finds the
\* instruction's authority (the derived key) among the account infos passed,
\* which hold the caller's seventh account; r is the ledger's result.
invoke_signed(S, pda_account, r) ==
    IF pda_account # PDA THEN Res("MissingAccount", S) ELSE r

\* ------------------------------------------------------------ the host

\* Rent::is_exempt(lamports, data_len).
is_exempt(acct) ==
    acct.lamports >= (IF Len(acct.data) = 0 THEN 1 ELSE RentExemptMin)

\* Escrow::unpack_unchecked: the storage must have the size of an Escrow.
unpack_unchecked_ok(acct) == Len(acct.data) = 1

\* u64 subtraction.
sub_u64(x, y) == (x - y) % (U64_MAX + 1)

\* ------------------------------------------------------- process_init_escrow

\* Escrow::is_initialized of the record read from the storage.
IsInitialized_Never(rec) == FALSE

IsInitialized_Always(rec) == TRUE

IsInitialized(rec) == rec.is_initialized

\* The record process_init_escrow writes.
InitRecord_Swapped(a) ==
    [is_initialized |-> TRUE, initializer_pubkey |-> a.initializer,
     temp_token_account_pubkey |-> a.temp, withdrawer_pubkey |-> a.initializer,
     deposited_amount |-> a.amount]

InitRecord(a) ==
    [is_initialized |-> TRUE, initializer_pubkey |-> a.initializer,
     temp_token_account_pubkey |-> a.temp, withdrawer_pubkey |-> a.withdrawer,
     deposited_amount |-> a.amount]

\* The signer check both handlers make on their first account.
SignerMissing_Never(a) == FALSE

SignerMissing(a) == ~a.is_signer

\* a = [initializer, is_signer, temp, withdrawer, escrow, amount]
process_init_escrow(S, a) ==
    IF SignerMissing(a) THEN Res("MissingRequiredSignature", S)
    ELSE IF ~is_exempt(S.escrow[a.escrow]) THEN Res("NotRentExempt", S)
    ELSE IF ~unpack_unchecked_ok(S.escrow[a.escrow]) THEN Res("InvalidAccountData", S)
    ELSE IF IsInitialized(S.escrow[a.escrow].data[1])
    THEN Res("AccountAlreadyInitialized", S)
    ELSE LET S1 == [S EXCEPT !.escrow[a.escrow].data = <<InitRecord(a)>>]
         IN  spl_set_authority(S1, a.temp, PDA, a.initializer)

\* --------------------------------------------------------- process_withdraw

\* The amount check of process_withdraw against the holding's live balance.
ExceedsLive_OffByOne(amount_to_withdraw, live) == amount_to_withdraw > live + 1

ExceedsLive(amount_to_withdraw, live) == amount_to_withdraw > live

\* The three identity checks of process_withdraw against the record.
TempOk(rec, temp) == rec.temp_token_account_pubkey = temp

InitializerOk_Skipped(rec, main) == TRUE

InitializerOk(rec, main) == rec.initializer_pubkey = main

WithdrawerOk_Skipped(rec, taker) == TRUE

WithdrawerOk(rec, taker) == rec.withdrawer_pubkey = taker

\* The branch of process_withdraw: TRUE for the partial claim.
IsPartial_Inverted(amount_to_withdraw, deposited_amount) ==
    amount_to_withdraw > deposited_amount

IsPartial(amount_to_withdraw, deposited_amount) ==
    amount_to_withdraw < deposited_amount

\* The partial-claim branch: transfer, then store the remaining amount.
withdraw_partial(S, a, rec) ==
    LET remaining_amount == sub_u64(rec.deposited_amount, a.amount)
        t == invoke_signed(S, a.pda_account,
                           spl_transfer(S, a.temp, a.dest, PDA, a.amount))
    IN  IF t.err # Ok THEN t
        ELSE Res(Ok, [t.st EXCEPT !.escrow[a.escrow].data =
                         <<[rec EXCEPT !.deposited_amount = remaining_amount]>>])

\* Closing the holding in the full-claim branch, its rent going to the
\* initializer's main account.
close_temp(S, a) ==
    invoke_signed(S, a.pda_account,
                  spl_close_account(S, a.temp, a.initializer_main, PDA))

\* Closing the escrow account: its lamports go to the initializer's main
\* account (checked_add) and become 0.  The empty slice is assigned to the
\* handler's own reference to the data: the bytes the account stores are not
\* written, and keep the record as the handler read it.
close_escrow_NoRefund(S, a) ==
    Res(Ok, [S EXCEPT !.escrow[a.escrow].lamports = 0])

close_escrow(S, a) ==
    IF S.lamports[a.initializer_main] + S.escrow[a.escrow].lamports > U64_MAX
    THEN Res("AmountOverflow", S)
    ELSE Res(Ok, [S EXCEPT
            !.lamports[a.initializer_main] = @ + S.escrow[a.escrow].lamports,
            !.escrow[a.escrow].lamports = 0])

\* The full-claim branch: transfer the live balance read at entry, close the
\* holding, close the escrow account, each step returning its error.
withdraw_full_ErrorsDropped(S, a, live) ==
    close_escrow(close_temp(invoke_signed(S, a.pda_account,
                                spl_transfer(S, a.temp, a.dest, PDA, live)).st,
                            a).st,
                 a)

withdraw_full(S, a, live) ==
    LET t == invoke_signed(S, a.pda_account,
                           spl_transfer(S, a.temp, a.dest, PDA, live))
    IN  IF t.err # Ok THEN t
        ELSE LET c == close_temp(t.st, a)
             IN  IF c.err # Ok THEN c ELSE close_escrow(c.st, a)

\* a = [taker, is_signer, dest, temp, initializer_main, escrow, pda_account, amount]
process_withdraw(S, a) ==
    IF SignerMissing(a) THEN Res("MissingRequiredSignature", S)
    ELSE IF S.token[a.temp].state # "Initialized" THEN Res("UninitializedAccount", S)
    ELSE IF ExceedsLive(a.amount, S.token[a.temp].amount)
    THEN Res("ExpectedAmountMismatch", S)
    ELSE IF ~unpack_unchecked_ok(S.escrow[a.escrow]) THEN Res("InvalidAccountData", S)
    ELSE IF ~IsInitialized(S.escrow[a.escrow].data[1])
    THEN Res("UninitializedAccount", S)
    ELSE LET rec == S.escrow[a.escrow].data[1] IN
         IF ~TempOk(rec, a.temp) THEN Res("InvalidAccountData", S)
         ELSE IF ~InitializerOk(rec, a.initializer_main) THEN Res("InvalidAccountData", S)
         ELSE IF ~WithdrawerOk(rec, a.taker) THEN Res("InvalidAccountData", S)
         ELSE IF IsPartial(a.amount, rec.deposited_amount)
              THEN withdraw_partial(S, a, rec)
              ELSE withdraw_full(S, a, S.token[a.temp].amount)

\* ------------------------------------------- EscrowInstruction::unpack

\* The bytes unpack_amount reads: input.get(..8).
AMOUNT_LEN == 8

\* u64::from_le_bytes, a byte weighing ByteMax + 1 times the one before it.
RECURSIVE from_le_bytes_BigEndian(_)
from_le_bytes_BigEndian(bytes) ==
    IF bytes = <<>> THEN 0
    ELSE bytes[Len(bytes)]
           + (ByteMax + 1) * from_le_bytes_BigEndian(SubSeq(bytes, 1, Len(bytes) - 1))

RECURSIVE from_le_bytes(_)
from_le_bytes(bytes) ==
    IF bytes = <<>> THEN 0
    ELSE Head(bytes) + (ByteMax + 1) * from_le_bytes(Tail(bytes))

\* EscrowInstruction::unpack_amount: the first AMOUNT_LEN bytes, if there
\* are that many.
unpack_amount_Exact(input) ==
    IF Len(input) # AMOUNT_LEN
    THEN [err |-> "InvalidInstruction", amount |-> 0]
    ELSE [err |-> Ok, amount |-> from_le_bytes(input)]

unpack_amount(input) ==
    IF Len(input) < AMOUNT_LEN
    THEN [err |-> "InvalidInstruction", amount |-> 0]
    ELSE [err |-> Ok, amount |-> from_le_bytes(SubSeq(input, 1, AMOUNT_LEN))]

\* EscrowInstruction::unpack: split_first, then the match on the tag.
unpack(input) ==
    IF input = <<>>
    THEN [err |-> "InvalidInstruction", instr |-> "none", amount |-> 0]
    ELSE LET tag == Head(input)
             rest == Tail(input)
         IN  IF tag = 0
             THEN [err |-> unpack_amount(rest).err,
                   instr |-> IF unpack_amount(rest).err = Ok THEN "InitEscrow" ELSE "none",
                   amount |-> unpack_amount(rest).amount]
             ELSE IF tag = 1
             THEN [err |-> unpack_amount(rest).err,
                   instr |-> IF unpack_amount(rest).err = Ok THEN "Withdraw" ELSE "none",
                   amount |-> unpack_amount(rest).amount]
             ELSE [err |-> "InvalidInstruction", instr |-> "none", amount |-> 0]

\* Processor::process up to the handler it calls: unpack(instruction_data)?,
\* then the match on the instruction.
dispatch(instruction_data) ==
    LET instruction == unpack(instruction_data) IN
    IF instruction.err # Ok
    THEN [err |-> instruction.err, handler |-> "none", amount |-> 0]
    ELSE IF instruction.instr = "InitEscrow"
    THEN [err |-> Ok, handler |-> "process_init_escrow", amount |-> instruction.amount]
    ELSE [err |-> Ok, handler |-> "process_withdraw", amount |-> instruction.amount]

\* ---------------------------------------------------------------- process

\* The records of S that are live over an open holding whose live balance
\* is below their deposited_amount.
Underfunded(S) ==
    {e \in EscrowAccts :
        /\ Len(S.escrow[e].data) = 1
        /\ S.escrow[e].data[1].is_initialized
        /\ S.token[S.escrow[e].data[1].temp_token_account_pubkey].state = "Initialized"
        /\ S.token[S.escrow[e].data[1].temp_token_account_pubkey].amount
               < S.escrow[e].data[1].deposited_amount}

\* The host keeps an invocation's writes only if it returned Ok.
Commit_KeepWrites(S, r) == r.st

Commit(S, r) == IF r.err = Ok THEN r.st ELSE S

\* An invocation that fails leaves nothing behind, so last and prev keep
\* describing the last invocation that returned Ok.
Effect(op, a, r) ==
    LET S == Commit(Accounts, r) IN
    /\ escrow' = S.escrow
    /\ token' = S.token
    /\ lamports' = S.lamports
    /\ IF r.err = Ok
       THEN last' = [op |-> op, a |-> a] /\ prev' = Accounts
       ELSE UNCHANGED <<last, prev>>
    /\ underfunded' = underfunded \cup Underfunded(S)

\* An invocation with the instruction already decoded.
Apply(op, a, r) ==
    /\ Effect(op, a, r)
    /\ UNCHANGED <<buf, dec>>

InitArgs ==
    [initializer : Users, is_signer : BOOLEAN, temp : Holdings,
     withdrawer : Users, escrow : EscrowAccts, amount : Amounts]

WithdrawArgs ==
    [taker : Users, is_signer : BOOLEAN, dest : Holdings, temp : Holdings,
     initializer_main : Users, escrow : EscrowAccts,
     pda_account : {PDA, "alice"}, amount : Amounts]

InitEscrow ==
    \E a \in InitArgs : Apply("InitEscrow", a, process_init_escrow(Accounts, a))

Withdraw ==
    \E a \in WithdrawArgs : Apply("Withdraw", a, process_withdraw(Accounts, a))

\* ------------------------------------------------------------------ Init

\* No instruction bytes decoded yet.
NotDecoded == [err |-> "NotDecoded", handler |-> "none", amount |-> 0]

\* Two fresh record storages (the second one rent exempt or not, by l2), two
\* holdings of their owners, and the wallets: bob's wallet is near the top
\* of u64 where the second storage is unusable, so that a refund to it
\* overflows, and small otherwise.
InitAccounts(l2) ==
    [escrow |-> [e \in EscrowAccts |->
                    [lamports |-> IF e = "e1" THEN RentExemptMin ELSE l2,
                     data |-> <<ZeroEscrow>>]],
     token |-> [h \in Holdings |->
                    [state |-> "Initialized",
                     owner |-> IF h = "h1" THEN "alice" ELSE "bob",
                     amount |-> IF h = "h1" THEN MaxAmount ELSE 1,
                     lamports |-> 1]],
     lamports |-> [u \in Users |->
                    IF u = "alice" \/ l2 >= RentExemptMin
                    THEN 1 ELSE U64_MAX - RentExemptMin]]

Init ==
    \E l2 \in {RentExemptMin - 1, RentExemptMin + 1} :
        /\ escrow = InitAccounts(l2).escrow
        /\ token = InitAccounts(l2).token
        /\ lamports = InitAccounts(l2).lamports
        /\ prev = InitAccounts(l2)
        /\ last = [op |-> "None", a |-> [amount |-> 0]]
        /\ underfunded = {}
        /\ buf = <<>>
        /\ dec = NotDecoded

Next == InitEscrow \/ Withdraw

Spec == Init /\ [][Next]_vars

\* ------------------------------------------- process on instruction bytes

\* The tag is any byte.  The two low bytes of the amount are sampled from
\* the least, the next and the greatest byte, the bytes after them from the
\* least and the next.
PayloadBytes == {0, 1, ByteMax}

\* Instruction data: empty, or a tag and up to AMOUNT_LEN + 1 further bytes.
Buffers ==
    {<<>>} \cup
    {<<t>> \o p : t \in 0 .. ByteMax,
                  p \in UNION {{q \in [1 .. n -> PayloadBytes] :
                                   \A i \in 3 .. n : q[i] <= 1} :
                               n \in 0 .. AMOUNT_LEN + 1}}

\* The accounts the call finds: fresh ones, or those an Initialize by alice
\* for bob left behind.
DecodeStart ==
    {InitAccounts(RentExemptMin + 1),
     process_init_escrow(InitAccounts(RentExemptMin + 1),
                         [initializer |-> "alice", is_signer |-> TRUE,
                          temp |-> "h1", withdrawer |-> "bob",
                          escrow |-> "e1", amount |-> MaxAmount]).st}

InitDecode ==
    \E S \in DecodeStart :
        /\ escrow = S.escrow
        /\ token = S.token
        /\ lamports = S.lamports
        /\ prev = S
        /\ last = [op |-> "None", a |-> [amount |-> 0]]
        /\ underfunded = {}
        /\ buf \in Buffers
        /\ dec = NotDecoded

\* The account lists of the calls on instruction bytes: signed, and with the
\* derived address as seventh account of a Withdraw.  The amount is the one
\* decoded from the bytes.
InitAccountLists ==
    [initializer : Users, is_signer : {TRUE}, temp : Holdings,
     withdrawer : Users, escrow : EscrowAccts, amount : {0}]

WithdrawAccountLists ==
    [taker : Users, is_signer : {TRUE}, dest : Holdings, temp : Holdings,
     initializer_main : Users, escrow : EscrowAccts,
     pda_account : {PDA}, amount : {0}]

\* process on bytes unpack rejects: the error is returned, no handler runs.
ProcessRejected ==
    /\ dec = NotDecoded
    /\ dispatch(buf).handler = "none"
    /\ dec' = dispatch(buf)
    /\ UNCHANGED <<escrow, token, lamports, last, prev, underfunded, buf>>

\* process on bytes that decode to InitEscrow { amount }.
ProcessInitEscrow ==
    /\ dec = NotDecoded
    /\ dispatch(buf).handler = "process_init_escrow"
    /\ dec' = dispatch(buf)
    /\ \E l \in InitAccountLists :
          LET a == [l EXCEPT !.amount = dispatch(buf).amount] IN
          Effect("InitEscrow", a, process_init_escrow(Accounts, a))
    /\ UNCHANGED buf

\* process on bytes that decode to Withdraw { amount }.
ProcessWithdraw ==
    /\ dec = NotDecoded
    /\ dispatch(buf).handler = "process_withdraw"
    /\ dec' = dispatch(buf)
    /\ \E l \in WithdrawAccountLists :
          LET a == [l EXCEPT !.amount = dispatch(buf).amount] IN
          Effect("Withdraw", a, process_withdraw(Accounts, a))
    /\ UNCHANGED buf

NextDecode == ProcessRejected \/ ProcessInitEscrow \/ ProcessWithdraw

SpecDecode == InitDecode /\ [][NextDecode]_vars

\* ------------------------------------------------ vocabulary of the claims

\* The storage holds an initialized record.
Live(acct) == Len(acct.data) = 1 /\ acct.data[1].is_initialized

Rec(acct) == acct.data[1]

\* The account has been left without lamports by a full settlement.
Drained(acct) == acct.lamports = 0

\* A token account the derived authority owns.
Custodial(h) == token[h].state = "Initialized" /\ token[h].owner = PDA

InitResult(a) == process_init_escrow(Accounts, a)

WithdrawResult(a) == process_withdraw(Accounts, a)

\* The record the last successful Withdraw read.
PrevRec == Rec(prev.escrow[last.a.escrow])

PartialClaim == last.op = "Withdraw" /\ last.a.amount < PrevRec.deposited_amount

FullClaim == last.op = "Withdraw" /\ last.a.amount >= PrevRec.deposited_amount

\* An identity of the call differs from the one the record stores.
Mismatch(a) ==
    \/ Rec(escrow[a.escrow]).temp_token_account_pubkey # a.temp
    \/ Rec(escrow[a.escrow]).initializer_pubkey # a.initializer_main
    \/ Rec(escrow[a.escrow]).withdrawer_pubkey # a.taker

\* A Withdraw that passes every check of the handler up to the first call on
\* the ledger.
PassesChecks(a) ==
    /\ a.is_signer
    /\ token[a.temp].state = "Initialized"
    /\ a.amount <= token[a.temp].amount
    /\ Live(escrow[a.escrow])
    /\ ~Mismatch(a)

\* ---------------------------------------------------------------- claims

\* C1: the balance of a holding goes down only in a Withdraw signed by the
\* party the record referencing that holding stores as withdrawer; no other
\* invocation, by the initializer or anyone else, moves assets out.
C1_OnlyWithdrawerMovesAssets ==
    \A h \in Holdings :
        token[h].amount < prev.token[h].amount =>
            /\ last.op = "Withdraw"
            /\ last.a.is_signer
            /\ last.a.temp = h
            /\ Live(prev.escrow[last.a.escrow])
            /\ PrevRec.temp_token_account_pubkey = h
            /\ PrevRec.withdrawer_pubkey = last.a.taker

C1_Witness ==
    /\ last.op = "Withdraw"
    /\ token[last.a.temp].amount < prev.token[last.a.temp].amount
    /\ PrevRec.initializer_pubkey # PrevRec.withdrawer_pubkey

\* C2 as stated: every Withdraw on a live record with a mismatching holding,
\* initializer or taker fails with InvalidAccountData and moves nothing.
C2_Original ==
    \A a \in WithdrawArgs :
        Live(escrow[a.escrow]) /\ Mismatch(a) =>
            /\ WithdrawResult(a).err = "InvalidAccountData"
            /\ WithdrawResult(a).st = Accounts

\* C2 amended: every such Withdraw fails and moves nothing; the error is
\* InvalidAccountData when the taker signed and the requested amount does not
\* exceed the balance of the supplied live holding (the checks made before
\* the record is read decide the error otherwise).
C2_Amended ==
    \A a \in WithdrawArgs :
        Live(escrow[a.escrow]) /\ Mismatch(a) =>
            /\ WithdrawResult(a).err # Ok
            /\ WithdrawResult(a).st = Accounts
            /\ (a.is_signer /\ token[a.temp].state = "Initialized"
                    /\ a.amount <= token[a.temp].amount
                => WithdrawResult(a).err = "InvalidAccountData")

C2_Witness ==
    \E a \in WithdrawArgs :
        /\ Live(escrow[a.escrow]) /\ Mismatch(a)
        /\ Custodial(a.temp) /\ a.amount > 0
        /\ WithdrawResult(a).err = "InvalidAccountData"

\* C3 as stated: a Withdraw asking for more than the custodial holding's live
\* balance fails with ExpectedAmountMismatch and changes nothing.
C3_Original ==
    \A a \in WithdrawArgs :
        Custodial(a.temp) /\ a.amount > token[a.temp].amount =>
            /\ WithdrawResult(a).err = "ExpectedAmountMismatch"
            /\ WithdrawResult(a).st = Accounts
            /\ Commit(Accounts, WithdrawResult(a)) = Accounts

\* C3 amended: such a Withdraw fails and changes nothing; the error is
\* ExpectedAmountMismatch when the taker signed, MissingRequiredSignature
\* when not.
C3_Amended ==
    \A a \in WithdrawArgs :
        Custodial(a.temp) /\ a.amount > token[a.temp].amount =>
            /\ WithdrawResult(a).err =
                 (IF a.is_signer THEN "ExpectedAmountMismatch"
                                 ELSE "MissingRequiredSignature")
            /\ WithdrawResult(a).st = Accounts
            /\ Commit(Accounts, WithdrawResult(a)) = Accounts

C3_Witness ==
    \E a \in WithdrawArgs :
        /\ Custodial(a.temp) /\ a.amount > token[a.temp].amount
        /\ Live(escrow[a.escrow]) /\ ~Mismatch(a)
        /\ WithdrawResult(a).err = "ExpectedAmountMismatch"

\* The preconditions C4 lists.
ValidInit(a) ==
    /\ a.is_signer
    /\ is_exempt(escrow[a.escrow])
    /\ Len(escrow[a.escrow].data) = 1
    /\ ~Rec(escrow[a.escrow]).is_initialized
    /\ token[a.temp].state = "Initialized"
    /\ token[a.temp].owner = a.initializer

\* C4: every valid Initialize succeeds and leaves the record initialized
\* with the identities and the amount supplied, and the holding owned by the
\* derived authority, not by the initializer.
C4_ValidInitialize ==
    \A a \in InitArgs :
        ValidInit(a) =>
            LET r == InitResult(a)
                S2 == Commit(Accounts, r)
            IN  /\ r.err = Ok
                /\ S2.escrow[a.escrow].data =
                     <<[is_initialized |-> TRUE,
                        initializer_pubkey |-> a.initializer,
                        temp_token_account_pubkey |-> a.temp,
                        withdrawer_pubkey |-> a.withdrawer,
                        deposited_amount |-> a.amount]>>
                /\ S2.token[a.temp].owner = PDA
                /\ S2.token[a.temp].owner # a.initializer

C4_Witness ==
    /\ last.op = "InitEscrow"
    /\ last.a.withdrawer # last.a.initializer
    /\ prev.token[last.a.temp].owner = last.a.initializer
    /\ ~Live(prev.escrow[last.a.escrow])
    /\ Live(escrow[last.a.escrow])
    /\ Rec(escrow[last.a.escrow]).withdrawer_pubkey = last.a.withdrawer
    /\ Rec(escrow[last.a.escrow]).deposited_amount = last.a.amount
    /\ token[last.a.temp].owner = PDA

\* C5 as stated: Initialize on a live record always fails with
\* AccountAlreadyInitialized and leaves the record unchanged.
C5_Original ==
    \A a \in InitArgs :
        Live(escrow[a.escrow]) =>
            /\ InitResult(a).err = "AccountAlreadyInitialized"
            /\ Commit(Accounts, InitResult(a)).escrow[a.escrow] = escrow[a.escrow]

\* C5 amended: Initialize on a live record always fails and leaves the record
\* unchanged; the error is MissingRequiredSignature when the initializer did
\* not sign, NotRentExempt when the storage has been drained by a full
\* settlement, AccountAlreadyInitialized otherwise.
C5_Amended ==
    \A a \in InitArgs :
        Live(escrow[a.escrow]) =>
            /\ InitResult(a).err =
                 (IF ~a.is_signer THEN "MissingRequiredSignature"
                  ELSE IF ~is_exempt(escrow[a.escrow]) THEN "NotRentExempt"
                  ELSE "AccountAlreadyInitialized")
            /\ InitResult(a).st.escrow[a.escrow] = escrow[a.escrow]
            /\ Commit(Accounts, InitResult(a)).escrow[a.escrow] = escrow[a.escrow]

C5_Witness ==
    \E a \in InitArgs :
        /\ Live(escrow[a.escrow])
        /\ a.amount # Rec(escrow[a.escrow]).deposited_amount
        /\ a.withdrawer # Rec(escrow[a.escrow]).withdrawer_pubkey
        /\ a.temp # Rec(escrow[a.escrow]).temp_token_account_pubkey
        /\ InitResult(a).err = "AccountAlreadyInitialized"

\* C6 as stated: a successful Withdraw of a < D leaves deposited_amount at
\* D - a, takes exactly a from the holding, credits exactly a to the
\* receiving holding, and leaves record and holding live.
C6_PartialClaim ==
    PartialClaim =>
        /\ Live(escrow[last.a.escrow])
        /\ Rec(escrow[last.a.escrow]).deposited_amount =
               PrevRec.deposited_amount - last.a.amount
        /\ token[last.a.temp].state = "Initialized"
        /\ token[last.a.temp].amount =
               prev.token[last.a.temp].amount - last.a.amount
        /\ token[last.a.dest].amount =
               prev.token[last.a.dest].amount + last.a.amount

\* C7 as stated: a successful Withdraw of a >= D moves the holding's whole
\* live balance to the receiving holding, closes the holding and destroys
\* the record in that one invocation.
C7_FullSettlement ==
    FullClaim =>
        /\ token[last.a.temp] = ClosedToken
        /\ (last.a.dest # last.a.temp =>
               token[last.a.dest].amount =
                   prev.token[last.a.dest].amount + prev.token[last.a.temp].amount)
        /\ (last.a.dest = last.a.temp => prev.token[last.a.temp].amount = 0)
        /\ ~Live(escrow[last.a.escrow])

\* C8 as stated: on a full withdrawal the initializer's main account gains
\* exactly the record's prior lamports, and the record's lamports become 0.
C8_Original ==
    FullClaim =>
        /\ lamports[last.a.initializer_main] =
               prev.lamports[last.a.initializer_main]
               + prev.escrow[last.a.escrow].lamports
        /\ escrow[last.a.escrow].lamports = 0

\* C8 amended: the initializer's main account gains exactly the record's
\* prior lamports plus the lamports of the closed holding, and the record's
\* lamports become 0.
C8_Amended ==
    FullClaim =>
        /\ lamports[last.a.initializer_main] =
               prev.lamports[last.a.initializer_main]
               + prev.escrow[last.a.escrow].lamports
               + prev.token[last.a.temp].lamports
        /\ escrow[last.a.escrow].lamports = 0

C8_Witness ==
    /\ FullClaim
    /\ prev.escrow[last.a.escrow].lamports > 0
    /\ prev.token[last.a.temp].lamports > 0
    /\ lamports[last.a.initializer_main] > prev.lamports[last.a.initializer_main]
    /\ escrow[last.a.escrow].lamports = 0

\* C9 as stated: no live record has deposited_amount = 0.
C9_NoZeroLiveRecord ==
    \A e \in EscrowAccts :
        Live(escrow[e]) => Rec(escrow[e]).deposited_amount > 0

\* C10: a Withdraw never raises the deposited_amount of a record that stays
\* live, and the amount stays within 0 .. its value before.
C10_DepositNonIncreasing ==
    last.op = "Withdraw" =>
        \A e \in EscrowAccts :
            Live(prev.escrow[e]) /\ Live(escrow[e]) =>
                /\ Rec(escrow[e]).deposited_amount >= 0
                /\ Rec(escrow[e]).deposited_amount
                       <= Rec(prev.escrow[e]).deposited_amount

C10_Witness ==
    /\ last.op = "Withdraw"
    /\ Live(escrow[last.a.escrow])
    /\ Rec(escrow[last.a.escrow]).deposited_amount < PrevRec.deposited_amount
    /\ Rec(escrow[last.a.escrow]).deposited_amount > 0

\* An Initialize that gets as far as writing the record and whose authority
\* change the ledger then refuses.
InitFailsLate(a) ==
    /\ a.is_signer
    /\ is_exempt(escrow[a.escrow])
    /\ ~Live(escrow[a.escrow])
    /\ token[a.temp].state # "Initialized" \/ token[a.temp].owner # a.initializer

\* A full-claim Withdraw that passes the handler's checks and whose transfer
\* the ledger accepts.
FullTransferDone(a) ==
    /\ PassesChecks(a)
    /\ a.pda_account = PDA
    /\ a.amount >= Rec(escrow[a.escrow]).deposited_amount
    /\ token[a.dest].state = "Initialized"
    /\ a.dest = a.temp \/ token[a.dest].amount + token[a.temp].amount <= U64_MAX

\* Such a Withdraw fails after the transfer: the ledger refuses to close a
\* holding that still has a balance, or the lamports of the holding and of
\* the record do not fit into the initializer's main account.
WithdrawFailsLate(a) ==
    /\ FullTransferDone(a)
    /\ \/ a.dest = a.temp /\ token[a.temp].amount > 0
       \/ lamports[a.initializer_main] + token[a.temp].lamports
            + escrow[a.escrow].lamports > U64_MAX

\* C11: an invocation in which a ledger call or the refund check fails after
\* the handler wrote the record or moved assets returns the error, and every
\* invocation that returns an error leaves every account (record, holdings,
\* lamports) exactly as before the call.
C11_AllOrNothing ==
    /\ \A a \in InitArgs :
          LET r == InitResult(a) IN
          /\ (InitFailsLate(a) => r.err # Ok /\ r.st.escrow # escrow)
          /\ (r.err # Ok => Commit(Accounts, r) = Accounts)
          /\ (r.err = Ok =>
                 /\ Live(r.st.escrow[a.escrow])
                 /\ r.st.token[a.temp].owner = PDA)
    /\ \A a \in WithdrawArgs :
          LET r == WithdrawResult(a) IN
          /\ (WithdrawFailsLate(a) => r.err # Ok)
          /\ (r.err # Ok => Commit(Accounts, r) = Accounts)
          /\ (r.err = Ok /\ a.amount >= Rec(escrow[a.escrow]).deposited_amount =>
                 /\ r.st.token[a.temp].state # "Initialized"
                 /\ Drained(r.st.escrow[a.escrow])
                 /\ r.st.lamports[a.initializer_main] =
                        lamports[a.initializer_main] + token[a.temp].lamports
                          + escrow[a.escrow].lamports)

\* Two Withdraws are on offer that fail after the transfer: one whose
\* refund overflows once the holding is closed, its writes being dropped, and
\* one to the holding itself, which the ledger then refuses to close.
C11_Witness ==
    /\ \E a \in WithdrawArgs :
          /\ WithdrawFailsLate(a)
          /\ WithdrawResult(a).err = "AmountOverflow"
          /\ WithdrawResult(a).st.token # token
          /\ WithdrawResult(a).st.lamports # lamports
          /\ Commit(Accounts, WithdrawResult(a)) = Accounts
    /\ \E a \in WithdrawArgs :
          /\ WithdrawFailsLate(a)
          /\ a.dest = a.temp
          /\ WithdrawResult(a).err = "NonNativeHasBalance"

\* The amount the bytes 1..8 of the instruction data encode, least
\* significant byte first.
LeValue(b) ==
    b[2] + (ByteMax + 1) * (b[3] + (ByteMax + 1) * (b[4] + (ByteMax + 1) * (b[5]
         + (ByteMax + 1) * (b[6] + (ByteMax + 1) * (b[7] + (ByteMax + 1) * (b[8]
         + (ByteMax + 1) * b[9]))))))

Rejected == dec = [err |-> "InvalidInstruction", handler |-> "none", amount |-> 0]

\* C12: tag 0 followed by 8 bytes decodes to Initialize, tag 1 followed by 8
\* bytes to Withdraw, the amount being the little-endian value of bytes
\* 1..8; an empty buffer, another tag or fewer than 9 bytes is rejected with
\* InvalidInstruction.
C12_Decoder ==
    dec # NotDecoded =>
        /\ (Len(buf) = 9 /\ buf[1] = 0 =>
               dec = [err |-> Ok, handler |-> "process_init_escrow",
                      amount |-> LeValue(buf)])
        /\ (Len(buf) = 9 /\ buf[1] = 1 =>
               dec = [err |-> Ok, handler |-> "process_withdraw",
                      amount |-> LeValue(buf)])
        /\ (Len(buf) < 9 => Rejected)
        /\ (Len(buf) > 0 /\ buf[1] \notin {0, 1} => Rejected)
        /\ (Rejected => last.op = "None" /\ Accounts = prev)
        /\ (last.op # "None" =>
               /\ last.op = (IF buf[1] = 0 THEN "InitEscrow" ELSE "Withdraw")
               /\ last.a.amount = LeValue(buf))

\* Nine bytes with tag 0 and an amount of several non-zero bytes: the
\* Initialize ran and stored that amount.
C12_Witness ==
    /\ dec.err = Ok
    /\ Len(buf) = 9
    /\ buf[1] = 0
    /\ buf[2] = 1 /\ buf[3] = ByteMax /\ buf[9] = 1
    /\ last.op = "InitEscrow"
    /\ Live(escrow[last.a.escrow])
    /\ Rec(escrow[last.a.escrow]).deposited_amount = LeValue(buf)

\* C13 as stated: instruction data whose length is not exactly 9 is
\* rejected and reaches no handler.
C13_Original ==
    dec # NotDecoded /\ Len(buf) # 9 => Rejected

\* C13 amended: instruction data shorter than 9 bytes is rejected; data
\* longer than 9 bytes with tag 0 or 1 is accepted, decoded from its first 9
\* bytes, and reaches the handler of its tag.
C13_Amended ==
    dec # NotDecoded =>
        /\ (Len(buf) < 9 => Rejected)
        /\ (Len(buf) > 9 /\ buf[1] \in {0, 1} =>
               dec = [err |-> Ok,
                      handler |-> IF buf[1] = 0 THEN "process_init_escrow"
                                                ELSE "process_withdraw",
                      amount |-> LeValue(buf)])
        /\ (Len(buf) > 9 /\ buf[1] \notin {0, 1} => Rejected)

\* Ten bytes with tag 1 and a non-zero last byte: the Withdraw ran with the
\* amount of bytes 1..8 and moved it.
C13_Witness ==
    /\ dec.err = Ok
    /\ Len(buf) > 9
    /\ buf[Len(buf)] # 0
    /\ dec.handler = "process_withdraw"
    /\ dec.amount = LeValue(buf) /\ dec.amount > 0
    /\ last.op = "Withdraw"
    /\ last.a.amount = dec.amount
    /\ token[last.a.dest].amount > prev.token[last.a.dest].amount

\* C14: an Initialize whose initializer did not sign and a Withdraw whose
\* taker did not sign fail with MissingRequiredSignature, whatever else is
\* wrong with the call, and change nothing.
C14_UnsignedRejected ==
    /\ \A a \in InitArgs :
          ~a.is_signer =>
              LET r == InitResult(a) IN
              /\ r.err = "MissingRequiredSignature"
              /\ r.st = Accounts
    /\ \A a \in WithdrawArgs :
          ~a.is_signer =>
              LET r == WithdrawResult(a) IN
              /\ r.err = "MissingRequiredSignature"
              /\ r.st = Accounts

\* Unsigned calls that every later check would reject too, and unsigned calls
\* that would have succeeded with the signature.
C14_Witness ==
    /\ \E a \in InitArgs :
          /\ ~a.is_signer
          /\ ~is_exempt(escrow[a.escrow])
          /\ token[a.temp].owner # a.initializer
          /\ InitResult(a).err = "MissingRequiredSignature"
    /\ \E a \in WithdrawArgs :
          /\ ~a.is_signer
          /\ a.amount > token[a.temp].amount
          /\ Drained(escrow[a.escrow])
          /\ WithdrawResult(a).err = "MissingRequiredSignature"
    /\ \E a \in WithdrawArgs :
          /\ ~a.is_signer
          /\ WithdrawResult([a EXCEPT !.is_signer = TRUE]).err = Ok
          /\ WithdrawResult(a).err = "MissingRequiredSignature"

\* The identities and the flag of a record.
Identity(rec) ==
    <<rec.is_initialized, rec.initializer_pubkey,
      rec.temp_token_account_pubkey, rec.withdrawer_pubkey>>

\* C15: while a record is live its initializer, holding and withdrawer
\* identities and its flag do not change; a partial Withdraw changes nothing
\* of the record but deposited_amount; an Initialize on a live record fails
\* and leaves it as it was.
C15_IdentitiesFrozen ==
    /\ \A e \in EscrowAccts :
          Live(prev.escrow[e]) /\ Live(escrow[e]) =>
              Identity(Rec(escrow[e])) = Identity(Rec(prev.escrow[e]))
    /\ PartialClaim =>
          /\ Live(escrow[last.a.escrow])
          /\ Rec(escrow[last.a.escrow]) =
                [PrevRec EXCEPT !.deposited_amount =
                                   Rec(escrow[last.a.escrow]).deposited_amount]
          /\ \A e \in EscrowAccts \ {last.a.escrow} : escrow[e] = prev.escrow[e]
    /\ \A a \in InitArgs :
          Live(escrow[a.escrow]) =>
              LET r == InitResult(a) IN
              /\ r.err # Ok
              /\ Commit(Accounts, r) = Accounts
              /\ (a.is_signer /\ is_exempt(escrow[a.escrow]) =>
                      r.err = "AccountAlreadyInitialized")

\* A partial Withdraw has acted on a record that is still live, and a signed
\* Initialize by another party on that record's storage is on offer.
C15_Witness ==
    /\ PartialClaim
    /\ Live(escrow[last.a.escrow])
    /\ Rec(escrow[last.a.escrow]).deposited_amount # PrevRec.deposited_amount
    /\ \E a \in InitArgs :
          /\ a.is_signer
          /\ a.escrow = last.a.escrow
          /\ a.initializer # PrevRec.initializer_pubkey
          /\ token[a.temp].owner = a.initializer
          /\ InitResult(a).err = "AccountAlreadyInitialized"

\* C16: a Withdraw whose seventh account is not the derived address fails
\* and moves nothing; where the handler's own checks pass, it is the signed
\* call on the ledger that fails.
C16_DerivedAuthority ==
    \A a \in WithdrawArgs :
        a.pda_account # PDA =>
            LET r == WithdrawResult(a) IN
            /\ r.err # Ok
            /\ Commit(Accounts, r) = Accounts
            /\ (PassesChecks(a) => r.err = "MissingAccount")

\* A call that would settle with the derived address and is rejected with
\* another seventh account.
C16_Witness ==
    \E a \in WithdrawArgs :
        /\ a.pda_account # PDA
        /\ PassesChecks(a)
        /\ a.amount > 0
        /\ WithdrawResult([a EXCEPT !.pda_account = PDA]).err = Ok
        /\ WithdrawResult(a).err = "MissingAccount"

\* C17: a partial Withdraw leaves the holding's balance minus the recorded
\* deposit as it was.
C17_GapUnchanged ==
    PartialClaim =>
        token[last.a.temp].amount - Rec(escrow[last.a.escrow]).deposited_amount
          = prev.token[last.a.temp].amount - PrevRec.deposited_amount

\* The holding a live record names.
HoldingOf(e) == Rec(escrow[e]).temp_token_account_pubkey

\* The Withdraw of exactly the recorded deposit by the stored withdrawer, to
\* the receiving holding d.
SettleCall(e, d) ==
    [taker |-> Rec(escrow[e]).withdrawer_pubkey, is_signer |-> TRUE,
     dest |-> d, temp |-> HoldingOf(e),
     initializer_main |-> Rec(escrow[e]).initializer_pubkey,
     escrow |-> e, pda_account |-> PDA,
     amount |-> Rec(escrow[e]).deposited_amount]

\* C18 as stated: once the open holding of a live record held less than the
\* recorded deposit, no Withdraw ever closes that holding or settles that
\* record.
C18_Original ==
    \A e \in underfunded :
        /\ token[HoldingOf(e)].state = "Initialized"
        /\ ~Drained(escrow[e])

\* C18 amended: the account of a live record is drained only by a Withdraw of
\* an amount between its deposited_amount and the holding's balance; in a
\* state where the balance is below deposited_amount no Withdraw closes the
\* holding or drains the record's account (later credits to the holding can
\* end that state); where the balance is at least deposited_amount, the
\* stored withdrawer settles in one call, given another live receiving
\* holding that can take the balance and a refund that does not overflow.
C18_Amended ==
    /\ \A e \in EscrowAccts :
          Live(prev.escrow[e]) /\ ~Drained(prev.escrow[e]) /\ Drained(escrow[e]) =>
              /\ last.op = "Withdraw"
              /\ last.a.escrow = e
              /\ PrevRec.deposited_amount <= last.a.amount
              /\ last.a.amount <= prev.token[PrevRec.temp_token_account_pubkey].amount
    /\ \A e \in EscrowAccts :
          Live(escrow[e])
            /\ token[HoldingOf(e)].state = "Initialized"
            /\ token[HoldingOf(e)].amount < Rec(escrow[e]).deposited_amount =>
              \A a \in WithdrawArgs :
                  LET S == Commit(Accounts, WithdrawResult(a)) IN
                  /\ Live(S.escrow[e])
                  /\ S.escrow[e].lamports = escrow[e].lamports
                  /\ S.token[HoldingOf(e)].state = "Initialized"
    /\ \A e \in EscrowAccts :
          Live(escrow[e])
            /\ token[HoldingOf(e)].state = "Initialized"
            /\ token[HoldingOf(e)].amount >= Rec(escrow[e]).deposited_amount =>
              \A d \in Holdings \ {HoldingOf(e)} :
                  token[d].state = "Initialized"
                    /\ token[d].amount + token[HoldingOf(e)].amount <= U64_MAX
                    /\ lamports[Rec(escrow[e]).initializer_pubkey]
                         + token[HoldingOf(e)].lamports + escrow[e].lamports <= U64_MAX =>
                      LET r == WithdrawResult(SettleCall(e, d)) IN
                      /\ r.err = Ok
                      /\ Drained(r.st.escrow[e])
                      /\ r.st.token[HoldingOf(e)].state # "Initialized"

\* A record whose holding once held less than the recorded deposit has been
\* credited since and then settled by its withdrawer in one call of exactly
\* the recorded deposit.
C18_Witness ==
    /\ FullClaim
    /\ last.a.escrow \in underfunded
    /\ Drained(escrow[last.a.escrow])
    /\ last.a.dest # last.a.temp
    /\ last.a.amount = PrevRec.deposited_amount
    /\ last.a.amount > 0
    /\ last.a.taker = PrevRec.withdrawer_pubkey
    /\ token[last.a.temp].state # "Initialized"

\* C19: no two live records name the same holding, and an Initialize that
\* names a holding the derived authority owns fails and leaves the record
\* storage it was given as it was.
C19_OneRecordPerHolding ==
    /\ \A e1, e2 \in EscrowAccts :
          e1 # e2 /\ Live(escrow[e1]) /\ Live(escrow[e2]) =>
              HoldingOf(e1) # HoldingOf(e2)
    /\ \A a \in InitArgs :
          Custodial(a.temp) =>
              LET r == InitResult(a) IN
              /\ r.err # Ok
              /\ Commit(Accounts, r) = Accounts
              /\ (a.is_signer /\ is_exempt(escrow[a.escrow])
                    /\ Len(escrow[a.escrow].data) = 1
                    /\ ~Rec(escrow[a.escrow]).is_initialized =>
                      r.err = "OwnerMismatch")

\* A second Initialize on fresh, rent-exempt storage names the holding of a
\* live record: it writes its record and then fails at the authority change.
C19_Witness ==
    \E e \in EscrowAccts, a \in InitArgs :
        /\ Live(escrow[e])
        /\ a.escrow # e
        /\ a.temp = HoldingOf(e)
        /\ a.is_signer
        /\ InitResult(a).err = "OwnerMismatch"
        /\ InitResult(a).st.escrow[a.escrow] # escrow[a.escrow]

\* C20: a Withdraw on record storage that was never initialized, or whose
\* account a full settlement drained, fails and changes nothing (with
\* UninitializedAccount on the former and InvalidAccountData on the latter
\* once the checks made before the record is read pass); a drained account
\* is changed by no later call, and no Initialize succeeds on it.
C20_NotLiveRejected ==
    /\ \A a \in WithdrawArgs :
          ~Live(escrow[a.escrow]) \/ Drained(escrow[a.escrow]) =>
              LET r == WithdrawResult(a) IN
              /\ r.err # Ok
              /\ r.st = Accounts
              /\ (a.is_signer /\ token[a.temp].state = "Initialized"
                    /\ a.amount <= token[a.temp].amount =>
                      r.err =
                          IF Live(escrow[a.escrow])
                          THEN "InvalidAccountData" ELSE "UninitializedAccount")
    /\ \A e \in EscrowAccts :
          Drained(prev.escrow[e]) => escrow[e] = prev.escrow[e]
    /\ \A a \in InitArgs :
          Drained(escrow[a.escrow]) => InitResult(a).err # Ok

\* After a full settlement the same call is repeated on the settled record,
\* and a call is made on storage never initialized.
C20_Witness ==
    /\ FullClaim
    /\ Drained(escrow[last.a.escrow])
    /\ WithdrawResult(last.a).err # Ok
    /\ \E d \in Holdings :
          /\ token[d].state = "Initialized"
          /\ WithdrawResult([last.a EXCEPT !.temp = d, !.amount = 0]).err
               = "InvalidAccountData"
    /\ \E a \in WithdrawArgs :
          /\ a.is_signer
          /\ ~Live(escrow[a.escrow])
          /\ WithdrawResult(a).err = "UninitializedAccount"

====
